---- MODULE Spec2Model ----
(***************************************************************************)
(* The emotion-streaming session of NeoPulse's EmotionDetector component   *)
(* (src/frontend/src/components/EmotionDetector.jsx), as a state machine.  *)
(*                                                                         *)
(* Every call of connect() is a "session" i in Sessions: it owns the       *)
(* MediaStream it acquires (stream[i]), the WebSocket it creates (ws[i])   *)
(* and the frame loop its onopen handler starts (loop[i]).  The refs       *)
(* wsRef, streamRef and frameLoopRef name the object most recently stored  *)
(* in them (0 is null).  Browser callbacks (promise settlements, socket    *)
(* events, animation frames, encoder callbacks) are the environment's      *)
(* actions; each runs its handler to completion, as the single-threaded    *)
(* event loop does.                                                        *)
(***************************************************************************)
EXTENDS Integers, Sequences, FiniteSets, TLC

\* ---------------------------------------------------------------- bounds
MaxSessions == 2      \* calls of connect() in one run
MaxMsgs     == 2      \* inbound messages handled in one run of Spec
MaxInflight == 1      \* encodes of one frame loop outstanding at once
HistMsgs    == 302    \* inbound messages handled in one run of SpecHistory
ScenMsgs    == 3      \* inbound messages handled in one run of SpecScenario
AggMsgs     == 4      \* inbound messages handled in one run of SpecAggregate

\* ------------------------------------------------------ program constants
HistKeep == 299       \* timelineRef.current.slice(-299)

Sessions == 1..MaxSessions

VARIABLES
    status,        \* useState("idle"): idle | connecting | live | error | no_face
    faceDetected,  \* useState(false)
    fps,           \* useState(0)
    emotion,       \* useState(null): "none" is null (allEmotions is set and cleared with it)
    stressScore,   \* useState(0), in percent (confidence, isMock are set with it)
    timelineRef,   \* useRef([]).current
    timeline,      \* useState([])
    wsRef,         \* useRef(null).current: 0, or the session whose socket it holds
    streamRef,     \* useRef(null).current: 0, or the session whose stream it holds
    frameLoopRef,  \* useRef(null).current: 0, or the loop that stored the last handle
    videoSrc,      \* videoRef.current.srcObject: 0, or the session whose stream it is
    mounted,       \* the component is mounted (videoRef/canvasRef are non-null)
    pc,            \* where each call of connect() stands
    stream,        \* each session's camera tracks: none | live | stopped
    ws,            \* each session's WebSocket.readyState, "none" before new WebSocket
    wsFailed,      \* sockets whose connection the browser has to fail (close() while CONNECTING)
    loop,          \* each session's frame loop: none | pending | ended | cancelled
    inflight,      \* each loop's toBlob/FileReader callbacks still to run
    nsess,         \* calls of connect() so far
    nmsg,          \* inbound messages handled so far
    napp,          \* samples appended since the History was last empty
    stopReturned,  \* disconnect() has run and connect() has not been called since
    ev             \* the handler that ran last, and what it saw and sent

vars == <<status, faceDetected, fps, emotion, stressScore, timelineRef, timeline,
          wsRef, streamRef, frameLoopRef, videoSrc, mounted, pc, stream, ws,
          wsFailed, loop, inflight, nsess, nmsg, napp, stopReturned, ev>>

\* ---------------------------------------------------------------- messages
NoMsg == [kind |-> "none", face |-> "absent", emo |-> "none", stress |-> 0, fps |-> 0, t |-> 0]

Msg(kind, face, emo, stress, rate, t) ==
    [kind |-> kind, face |-> face, emo |-> emo, stress |-> stress, fps |-> rate, t |-> t]

\* The inbound payloads of Spec; t is the peer's timestamp.
Messages(t) ==
    { Msg("garbage",   "absent", "none",     0,  0,  t),   \* not JSON
      Msg("keepalive", "true",   "calm",     20, 30, t),   \* {type: "keepalive", ...}
      Msg("pong",      "absent", "none",     0,  0,  t),   \* {type: "pong"}
      Msg("data",      "absent", "none",     0,  0,  t),   \* {}
      Msg("data",      "true",   "calm",     20, 30, t),
      Msg("data",      "true",   "stressed", 80, 30, t),
      Msg("data",      "true",   "none",     0,  30, t),   \* face, no emotion
      Msg("data",      "false",  "none",     0,  0,  t),
      Msg("data",      "false",  "calm",     20, 30, t) }

\* The inbound payloads of SpecHistory: one sample and one no-face message.
HistMessages(t) ==
    { Msg("data", "true",  "calm", 20, 30, t),
      Msg("data", "false", "none", 0,  0,  t) }

\* The inbound payloads of SpecScenario: the k-th message reports a face when k is
\* odd and no face when k is even (true, false, true, ...).
ScenarioMessages(k, t) ==
    IF k % 2 = 1
    THEN { Msg("data", "true",  "calm",     20, 30, t),
           Msg("data", "true",  "stressed", 80, 30, t) }
    ELSE { Msg("data", "false", "none",     0,  0,  t),
           Msg("data", "false", "calm",     20, 30, t) }

\* The payloads SpecScenario interleaves with them: not JSON, keepalive, pong.
OtherMessages(t) == { m \in Messages(t) : m.kind # "data" }

\* The inbound payloads of SpecAggregate: samples of three of the EMOTIONS, and a
\* no-face message.
AggLabels == {"calm", "stressed", "joy"}

AggMessages(t) ==
    { Msg("data", "true", e, 50, 30, t) : e \in AggLabels }
        \cup { Msg("data", "false", "none", 0, 0, t) }

\* The record of the handler that ran: op on session s, from session state pre and
\* socket state wsPre, handling message m, sending tx ("none", "frame", "reset") on
\* socket txOn, and calling onEmotionUpdate or not.
Ev(op, s, m, tx, txOn, notified) ==
    [op |-> op, s |-> s, pre |-> status, wsPre |-> IF s = 0 THEN "none" ELSE ws[s],
     m |-> m, tx |-> tx, txOn |-> txOn, notified |-> notified]

Quiet(op, s) == Ev(op, s, NoMsg, "none", 0, FALSE)

Init ==
    /\ status = "idle"
    /\ faceDetected = FALSE
    /\ fps = 0
    /\ emotion = "none"
    /\ stressScore = 0
    /\ timelineRef = <<>>
    /\ timeline = <<>>
    /\ wsRef = 0
    /\ streamRef = 0
    /\ frameLoopRef = 0
    /\ videoSrc = 0
    /\ mounted = TRUE
    /\ pc = [i \in Sessions |-> "unused"]
    /\ stream = [i \in Sessions |-> "none"]
    /\ ws = [i \in Sessions |-> "none"]
    /\ wsFailed = {}
    /\ loop = [i \in Sessions |-> "none"]
    /\ inflight = [i \in Sessions |-> 0]
    /\ nsess = 0
    /\ nmsg = 0
    /\ napp = 0
    /\ stopReturned = FALSE
    /\ ev = [op |-> "init", s |-> 0, pre |-> "idle", wsPre |-> "none", m |-> NoMsg,
             tx |-> "none", txOn |-> 0, notified |-> FALSE]

\* ----------------------------------------------------------------- helpers
\* A state setter of an unmounted component changes nothing (React drops the update).
Set(new, cur) == IF mounted THEN new ELSE cur

\* The value of `status` inside connect(): connect is memoised on [token, userId],
\* which do not change while the component is mounted, so every call runs the
\* closure of the first render, where status is "idle".
connectStatus == "idle"

\* timelineRef.current.slice(-n)
Slice(tl, n) == IF Len(tl) <= n THEN tl ELSE SubSeq(tl, Len(tl) - n + 1, Len(tl))

\* Mutants of TimelineAppend: no eviction; the new sample at the head.
TimelineAppendNoEvict(tl, entry) == tl \o <<entry>>
TimelineAppendAtHead(tl, entry) == <<entry>> \o Slice(tl, HistKeep)

\* [...timelineRef.current.slice(-299), entry]
TimelineAppend(tl, entry) == Slice(tl, HistKeep) \o <<entry>>

\* { t: data.timestamp, e: data.emotion, stress: data.stress_score || 0 }
Entry(m) == [t |-> m.t, e |-> m.emo, stress |-> m.stress]

\* stopFrameLoop(): cancelAnimationFrame(frameLoopRef.current) cancels the one
\* handle the ref holds; a handle that has fired or was cancelled is a no-op.
stopFrameLoop(l) ==
    IF frameLoopRef # 0 /\ l[frameLoopRef] = "pending"
    THEN [l EXCEPT ![frameLoopRef] = "cancelled"]
    ELSE l

\* wsRef.current?.close(): CONNECTING and OPEN sockets go to CLOSING.
CloseSocket(w) ==
    IF wsRef # 0 /\ w[wsRef] \in {"CONNECTING", "OPEN"}
    THEN [w EXCEPT ![wsRef] = "CLOSING"]
    ELSE w

\* close() on a CONNECTING socket fails its connection: error, then close, follow.
CloseFails(f) == IF wsRef # 0 /\ ws[wsRef] = "CONNECTING" THEN f \cup {wsRef} ELSE f

\* streamRef.current?.getTracks().forEach(t => t.stop())
StopTracks(st) == IF streamRef # 0 THEN [st EXCEPT ![streamRef] = "stopped"] ELSE st

\* Mutant of RefOpen: the readyState is not tested.
RefOpenUnchecked == wsRef # 0

\* wsRef.current?.readyState === WebSocket.OPEN
RefOpen == wsRef # 0 /\ ws[wsRef] = "OPEN"

\* Mutant of OnOpenStatus: onopen does not set the status.
OnOpenStatusKeeps(st) == st

\* ws.onopen: setStatus("live")
OnOpenStatus(st) == "live"

\* ws.onerror: setStatus("error")
OnErrorStatus(st) == "error"

\* Mutant of OnCloseStatus: a close event reports an error.
OnCloseStatusError(st) == "error"

\* ws.onclose: if (status !== "idle") setStatus("idle"), on the closure's status
OnCloseStatus(st) == IF connectStatus # "idle" THEN "idle" ELSE st

\* Mutant of MsgStatus: a payload without face_detected does not set the status.
MsgStatusSkipsMissing(m) ==
    IF m.face = "true" THEN "live" ELSE IF m.face = "false" THEN "no_face" ELSE status

\* Mutant of MsgStatus: the no-face branch does not set the status.
MsgStatusKeepsLive(m) == IF m.face = "true" THEN "live" ELSE status

\* ws.onmessage, after setFps: the status the face_detected flag selects
MsgStatus(m) == IF m.face = "true" THEN "live" ELSE "no_face"

\* Mutants of IsData: a parse failure is not caught; keepalive is not filtered.
IsDataUncaught(m) == m.kind \in {"data", "garbage"}
IsDataKeepalive(m) == m.kind \in {"data", "keepalive"}

\* ws.onmessage: a payload that parses and is neither keepalive nor pong
IsData(m) == m.kind = "data"

\* Mutants of Appends: the sample is recorded before the face check; every data
\* payload is recorded.
AppendsAnyFace(m) == m.emo # "none"
AppendsAlways(m) == TRUE

\* Mutant of Appends: `if (data.emotion)` is missing.
AppendsFaceOnly(m) == m.face = "true"

\* ws.onmessage: the payload passes `if (!data.face_detected) return` and
\* `if (data.emotion)`, so its sample is recorded and handed to onEmotionUpdate
Appends(m) == m.face = "true" /\ m.emo # "none"

\* ------------------------------------------------------------ session stats
\* counts[t.e] = (counts[t.e] || 0) + 1: an object keeps its string keys in the
\* order they were first assigned, so counts is a list of <<label, count>>.
Bump(cs, e) ==
    IF \E j \in 1..Len(cs) : cs[j][1] = e
    THEN [j \in 1..Len(cs) |-> IF cs[j][1] = e THEN <<e, cs[j][2] + 1>> ELSE cs[j]]
    ELSE Append(cs, <<e, 1>>)

\* timeline.forEach(t => { counts[t.e] = (counts[t.e] || 0) + 1; })
RECURSIVE counts(_)
counts(tl) ==
    IF tl = <<>> THEN <<>>
    ELSE Bump(counts(SubSeq(tl, 1, Len(tl) - 1)), tl[Len(tl)].e)

\* Mutant of InsertDesc: an entry goes before the entries of equal count.
InsertDescTiesFirst(sorted, x) ==
    LET k == Cardinality({j \in 1..Len(sorted) : sorted[j][2] > x[2]})
    IN  SubSeq(sorted, 1, k) \o <<x>> \o SubSeq(sorted, k + 1, Len(sorted))

\* One step of .sort((a, b) => b[1] - a[1]): Array.prototype.sort is stable, so
\* an entry goes after every entry whose count is not smaller.
InsertDesc(sorted, x) ==
    LET k == Cardinality({j \in 1..Len(sorted) : sorted[j][2] >= x[2]})
    IN  SubSeq(sorted, 1, k) \o <<x>> \o SubSeq(sorted, k + 1, Len(sorted))

\* Object.entries(counts).sort((a, b) => b[1] - a[1])
RECURSIVE SortDesc(_)
SortDesc(es) ==
    IF es = <<>> THEN <<>>
    ELSE InsertDesc(SortDesc(SubSeq(es, 1, Len(es) - 1)), es[Len(es)])

\* label.slice(0, 4).toUpperCase(), for the labels of EMOTIONS
Upper4(e) ==
    CASE e = "calm"         -> "CALM"
      [] e = "focused"      -> "FOCU"
      [] e = "stressed"     -> "STRE"
      [] e = "anxious"      -> "ANXI"
      [] e = "fatigued"     -> "FATI"
      [] e = "joy"          -> "JOY"
      [] e = "dissociation" -> "DISS"

\* The TOP STATE cell: the first entry's label, cut and upper-cased, or a dash
\* ("-" here) when there is no entry.
TopState(tl) ==
    LET es == SortDesc(counts(tl))
    IN  IF es = <<>> THEN "-" ELSE Upper4(es[1][1])

\* The FRAMES cell: timeline.length
Frames(tl) == Len(tl)

\* ----------------------------------------------------------------- actions
\* Mutant of Connect: START SCAN is offered in every state.
ConnectAnyState ==
    /\ mounted
    /\ nsess < MaxSessions
    /\ nsess' = nsess + 1
    /\ pc' = [pc EXCEPT ![nsess + 1] = "gum"]
    /\ status' = "connecting"
    /\ stopReturned' = FALSE
    /\ ev' = Quiet("connect", nsess + 1)
    /\ UNCHANGED <<faceDetected, fps, emotion, stressScore, timelineRef, timeline, wsRef,
                   streamRef, frameLoopRef, videoSrc, mounted, stream, ws, wsFailed,
                   loop, inflight, nmsg, napp>>

\* START SCAN (shown while status is idle) calls connect(): setStatus("connecting")
\* and getUserMedia() is awaited.
Connect ==
    /\ mounted
    /\ status = "idle"
    /\ nsess < MaxSessions
    /\ nsess' = nsess + 1
    /\ pc' = [pc EXCEPT ![nsess + 1] = "gum"]
    /\ status' = "connecting"
    /\ stopReturned' = FALSE
    /\ ev' = Quiet("connect", nsess + 1)
    /\ UNCHANGED <<faceDetected, fps, emotion, stressScore, timelineRef, timeline, wsRef,
                   streamRef, frameLoopRef, videoSrc, mounted, stream, ws, wsFailed,
                   loop, inflight, nmsg, napp>>

\* new WebSocket(...); wsRef.current = ws; the handlers are attached
NewWebSocket(i) ==
    /\ ws' = [ws EXCEPT ![i] = "CONNECTING"]
    /\ wsRef' = i
    /\ pc' = [pc EXCEPT ![i] = "done"]
    /\ status' = status

\* new WebSocket(...) throws: catch (err) { setStatus("error") }
WebSocketThrows(i) ==
    /\ pc' = [pc EXCEPT ![i] = "wsFailed"]
    /\ status' = Set("error", status)
    /\ UNCHANGED <<ws, wsRef>>

\* getUserMedia() resolves: streamRef.current = stream; with a video element,
\* srcObject = stream and play() is awaited; without one the socket is created.
GetUserMediaResolve(i) ==
    /\ pc[i] = "gum"
    /\ stream' = [stream EXCEPT ![i] = "live"]
    /\ streamRef' = i
    /\ IF mounted
       THEN /\ videoSrc' = i
            /\ pc' = [pc EXCEPT ![i] = "play"]
            /\ UNCHANGED <<ws, wsRef, status>>
       ELSE /\ UNCHANGED videoSrc
            /\ NewWebSocket(i) \/ WebSocketThrows(i)
    /\ ev' = Quiet("gumResolve", i)
    /\ UNCHANGED <<faceDetected, fps, emotion, stressScore, timelineRef, timeline,
                   frameLoopRef, mounted, wsFailed, loop, inflight, stopReturned, nsess, nmsg, napp>>

\* Mutant of GetUserMediaReject: the catch block does not return, so the socket
\* is created after a failed acquisition.
GetUserMediaRejectNoReturn(i) ==
    /\ pc[i] = "gum"
    /\ pc' = [pc EXCEPT ![i] = "gumFailed"]
    /\ status' = Set("error", status)
    /\ ws' = [ws EXCEPT ![i] = "CONNECTING"]
    /\ wsRef' = i
    /\ ev' = Quiet("gumReject", i)
    /\ UNCHANGED <<faceDetected, fps, emotion, stressScore, timelineRef, timeline,
                   streamRef, frameLoopRef, videoSrc, mounted, stream, wsFailed,
                   loop, inflight, stopReturned, nsess, nmsg, napp>>

\* getUserMedia() rejects: catch (err) { setStatus("error"); return; }
GetUserMediaReject(i) ==
    /\ pc[i] = "gum"
    /\ pc' = [pc EXCEPT ![i] = "gumFailed"]
    /\ status' = Set("error", status)
    /\ ev' = Quiet("gumReject", i)
    /\ UNCHANGED <<faceDetected, fps, emotion, stressScore, timelineRef, timeline, wsRef,
                   streamRef, frameLoopRef, videoSrc, mounted, stream, ws, wsFailed,
                   loop, inflight, stopReturned, nsess, nmsg, napp>>

\* video.play() resolves (only while srcObject is still this stream: a new
\* srcObject rejects the pending play promise); the socket is created.
PlayResolve(i) ==
    /\ pc[i] = "play"
    /\ videoSrc = i
    /\ NewWebSocket(i) \/ WebSocketThrows(i)
    /\ ev' = Quiet("playResolve", i)
    /\ UNCHANGED <<faceDetected, fps, emotion, stressScore, timelineRef, timeline,
                   streamRef, frameLoopRef, videoSrc, mounted, stream, wsFailed,
                   loop, inflight, stopReturned, nsess, nmsg, napp>>

\* video.play() rejects: catch (err) { setStatus("error"); return; }
PlayReject(i) ==
    /\ pc[i] = "play"
    /\ pc' = [pc EXCEPT ![i] = "playFailed"]
    /\ status' = Set("error", status)
    /\ ev' = Quiet("playReject", i)
    /\ UNCHANGED <<faceDetected, fps, emotion, stressScore, timelineRef, timeline, wsRef,
                   streamRef, frameLoopRef, videoSrc, mounted, stream, ws, wsFailed,
                   loop, inflight, stopReturned, nsess, nmsg, napp>>

\* startFrameLoop(): without canvas or video it returns; else the first frame is requested.
StartFrameLoop(i) ==
    IF mounted
    THEN /\ loop' = [loop EXCEPT ![i] = "pending"]
         /\ frameLoopRef' = i
    ELSE UNCHANGED <<loop, frameLoopRef>>

\* The socket opens: ws.onopen = () => { setStatus("live"); startFrameLoop(); }
WsOpen(i) ==
    /\ ws[i] = "CONNECTING"
    /\ ws' = [ws EXCEPT ![i] = "OPEN"]
    /\ status' = Set(OnOpenStatus(status), status)
    /\ StartFrameLoop(i)
    /\ ev' = Quiet("open", i)
    /\ UNCHANGED <<faceDetected, fps, emotion, stressScore, timelineRef, timeline, wsRef,
                   streamRef, videoSrc, mounted, pc, stream, wsFailed, inflight,
                   stopReturned, nsess, nmsg, napp>>

\* ws.onmessage on socket i (the browser delivers messages only while it is OPEN).
\* A payload that does not parse, or a keepalive/pong, changes nothing.
WsMessage(i, m) ==
    /\ ws[i] = "OPEN"
    /\ IF ~IsData(m)
       THEN /\ ev' = Ev("message", i, m, "none", 0, FALSE)
            /\ UNCHANGED <<status, faceDetected, fps, emotion, stressScore,
                           timelineRef, timeline, napp>>
       ELSE /\ fps' = Set(m.fps, fps)
            /\ faceDetected' = Set(m.face = "true", faceDetected)
            /\ status' = Set(MsgStatus(m), status)
            /\ IF Appends(m)
               THEN /\ emotion' = Set(m.emo, emotion)
                    /\ stressScore' = Set(m.stress, stressScore)
                    /\ timelineRef' = TimelineAppend(timelineRef, Entry(m))
                    /\ timeline' = Set(timelineRef', timeline)
                    /\ napp' = napp + 1
                    /\ ev' = Ev("message", i, m, "none", 0, TRUE)
               ELSE /\ ev' = Ev("message", i, m, "none", 0, FALSE)
                    /\ UNCHANGED <<emotion, stressScore, timelineRef, timeline, napp>>
    /\ UNCHANGED <<wsRef, streamRef, frameLoopRef, videoSrc, mounted, pc, stream, ws,
                   wsFailed, loop, inflight, stopReturned, nsess>>

\* The socket closes without an error: the peer closed an OPEN socket, or the
\* closing handshake of close() completed.  ws.onclose runs.
WsClose(i) ==
    /\ \/ ws[i] = "OPEN"
       \/ ws[i] = "CLOSING" /\ i \notin wsFailed
    /\ ws' = [ws EXCEPT ![i] = "CLOSED"]
    /\ status' = Set(OnCloseStatus(status), status)
    /\ loop' = stopFrameLoop(loop)
    /\ ev' = Quiet("close", i)
    /\ UNCHANGED <<faceDetected, fps, emotion, stressScore, timelineRef, timeline, wsRef,
                   streamRef, frameLoopRef, videoSrc, mounted, pc, stream, wsFailed,
                   inflight, stopReturned, nsess, nmsg, napp>>

\* The connection fails (handshake refused, network lost, or close() while
\* CONNECTING): the browser sets readyState CLOSED and fires error, then close, in
\* one task, so ws.onerror and ws.onclose run back to back.
WsError(i) ==
    /\ \/ ws[i] \in {"CONNECTING", "OPEN"}
       \/ ws[i] = "CLOSING" /\ i \in wsFailed
    /\ ws' = [ws EXCEPT ![i] = "CLOSED"]
    /\ wsFailed' = wsFailed \ {i}
    /\ status' = Set(OnCloseStatus(OnErrorStatus(status)), status)
    /\ loop' = stopFrameLoop(loop)
    /\ ev' = Quiet("error", i)
    /\ UNCHANGED <<faceDetected, fps, emotion, stressScore, timelineRef, timeline, wsRef,
                   streamRef, frameLoopRef, videoSrc, mounted, pc, stream,
                   inflight, stopReturned, nsess, nmsg, napp>>

\* An animation frame of loop i fires: capture().  With wsRef's socket not OPEN it
\* returns and requests no further frame; else it draws, starts an encode
\* (canvas.toBlob) and requests the next frame.
Tick(i) ==
    /\ loop[i] = "pending"
    /\ IF RefOpen
       THEN /\ inflight[i] < MaxInflight
            /\ inflight' = [inflight EXCEPT ![i] = @ + 1]
            /\ frameLoopRef' = i
            /\ UNCHANGED loop
       ELSE /\ loop' = [loop EXCEPT ![i] = "ended"]
            /\ UNCHANGED <<inflight, frameLoopRef>>
    /\ ev' = Quiet("tick", i)
    /\ UNCHANGED <<status, faceDetected, fps, emotion, stressScore, timelineRef, timeline,
                   wsRef, streamRef, videoSrc, mounted, pc, stream, ws, wsFailed,
                   stopReturned, nsess, nmsg, napp>>

\* Mutant of BlobNull: a failed encode ends the loop.
BlobNullEndsLoop(i) ==
    /\ inflight[i] > 0
    /\ inflight' = [inflight EXCEPT ![i] = @ - 1]
    /\ loop' = [loop EXCEPT ![i] = "ended"]
    /\ ev' = Quiet("blobNull", i)
    /\ UNCHANGED <<status, faceDetected, fps, emotion, stressScore, timelineRef, timeline,
                   wsRef, streamRef, frameLoopRef, videoSrc, mounted, pc, stream, ws,
                   wsFailed, stopReturned, nsess, nmsg, napp>>

\* The toBlob callback of loop i runs with no blob: if (!blob) return.
BlobNull(i) ==
    /\ inflight[i] > 0
    /\ inflight' = [inflight EXCEPT ![i] = @ - 1]
    /\ ev' = Quiet("blobNull", i)
    /\ UNCHANGED <<status, faceDetected, fps, emotion, stressScore, timelineRef, timeline,
                   wsRef, streamRef, frameLoopRef, videoSrc, mounted, pc, stream, ws,
                   wsFailed, loop, stopReturned, nsess, nmsg, napp>>

\* Mutant of ReaderLoad: the callback of one encode runs again.
ReaderLoadAgain(i) ==
    /\ inflight[i] > 0
    /\ ev' = IF RefOpen THEN Ev("readerLoad", i, NoMsg, "frame", wsRef, FALSE)
                        ELSE Quiet("readerLoad", i)
    /\ UNCHANGED <<status, faceDetected, fps, emotion, stressScore, timelineRef, timeline,
                   wsRef, streamRef, frameLoopRef, videoSrc, mounted, pc, stream, ws,
                   wsFailed, loop, stopReturned, nsess, nmsg, napp, inflight>>

\* The toBlob callback of loop i got a blob and its FileReader has loaded:
\* reader.onload sends {frame} on wsRef's socket if that is OPEN.
ReaderLoad(i) ==
    /\ inflight[i] > 0
    /\ inflight' = [inflight EXCEPT ![i] = @ - 1]
    /\ ev' = IF RefOpen THEN Ev("readerLoad", i, NoMsg, "frame", wsRef, FALSE)
                        ELSE Quiet("readerLoad", i)
    /\ UNCHANGED <<status, faceDetected, fps, emotion, stressScore, timelineRef, timeline,
                   wsRef, streamRef, frameLoopRef, videoSrc, mounted, pc, stream, ws,
                   wsFailed, loop, stopReturned, nsess, nmsg, napp>>

\* RESET (shown while status is not idle): wsRef.current?.send({type: "reset"});
\* timelineRef.current = []; setTimeline([]).  send() on a CONNECTING socket throws
\* and the handler ends there; on a CLOSING or CLOSED socket it sends nothing.
Reset ==
    /\ mounted
    /\ status # "idle"
    /\ IF wsRef # 0 /\ ws[wsRef] = "CONNECTING"
       THEN /\ ev' = Quiet("resetThrows", wsRef)
            /\ UNCHANGED <<timelineRef, timeline, napp>>
       ELSE /\ ev' = IF RefOpen THEN Ev("reset", wsRef, NoMsg, "reset", wsRef, FALSE)
                               ELSE Quiet("reset", wsRef)
            /\ timelineRef' = <<>>
            /\ timeline' = <<>>
            /\ napp' = 0
    /\ UNCHANGED <<status, faceDetected, fps, emotion, stressScore, wsRef, streamRef,
                   frameLoopRef, videoSrc, mounted, pc, stream, ws, wsFailed, loop,
                   inflight, stopReturned, nsess, nmsg>>

\* Mutant of disconnect: STOP also empties the timeline.
disconnectClearsTimeline ==
    /\ loop' = stopFrameLoop(loop)
    /\ ws' = CloseSocket(ws)
    /\ wsFailed' = CloseFails(wsFailed)
    /\ stream' = StopTracks(stream)
    /\ videoSrc' = IF mounted THEN 0 ELSE videoSrc
    /\ status' = Set("idle", status)
    /\ emotion' = Set("none", emotion)
    /\ stopReturned' = TRUE
    /\ timelineRef' = <<>>
    /\ timeline' = Set(<<>>, timeline)
    /\ napp' = 0
    /\ UNCHANGED <<faceDetected, fps, stressScore, wsRef,
                   streamRef, frameLoopRef, pc, inflight, nsess, nmsg>>

\* disconnect(): stopFrameLoop(); wsRef.current?.close(); the tracks of
\* streamRef.current are stopped; srcObject = null; setStatus("idle");
\* setEmotion(null); setAllEmotions(null).
disconnect ==
    /\ loop' = stopFrameLoop(loop)
    /\ ws' = CloseSocket(ws)
    /\ wsFailed' = CloseFails(wsFailed)
    /\ stream' = StopTracks(stream)
    /\ videoSrc' = IF mounted THEN 0 ELSE videoSrc
    /\ status' = Set("idle", status)
    /\ emotion' = Set("none", emotion)
    /\ stopReturned' = TRUE
    /\ UNCHANGED <<faceDetected, fps, stressScore, timelineRef, timeline, wsRef,
                   streamRef, frameLoopRef, pc, inflight, nsess, nmsg, napp>>

\* STOP (shown while status is not idle) calls disconnect().
Disconnect ==
    /\ mounted
    /\ status # "idle"
    /\ disconnect
    /\ ev' = Quiet("disconnect", wsRef)
    /\ UNCHANGED mounted

\* The component unmounts: React detaches videoRef and canvasRef, then the effect
\* cleanup calls disconnect(), whose state updates React drops.
Unmount ==
    /\ mounted
    /\ mounted' = FALSE
    /\ loop' = stopFrameLoop(loop)
    /\ ws' = CloseSocket(ws)
    /\ wsFailed' = CloseFails(wsFailed)
    /\ stream' = StopTracks(stream)
    /\ stopReturned' = TRUE
    /\ ev' = Quiet("unmount", wsRef)
    /\ UNCHANGED <<status, faceDetected, fps, emotion, stressScore, timelineRef, timeline,
                   wsRef, streamRef, frameLoopRef, videoSrc, pc, inflight, nsess,
                   nmsg, napp>>

\* ------------------------------------------------------------ specifications
Next ==
    \/ Connect
    \/ \E i \in Sessions : GetUserMediaResolve(i)
    \/ \E i \in Sessions : GetUserMediaReject(i)
    \/ \E i \in Sessions : PlayResolve(i)
    \/ \E i \in Sessions : PlayReject(i)
    \/ \E i \in Sessions : WsOpen(i)
    \/ \E i \in Sessions : \E m \in Messages(napp + 1) :
          nmsg < MaxMsgs /\ nmsg' = nmsg + 1 /\ WsMessage(i, m)
    \/ \E i \in Sessions : WsClose(i)
    \/ \E i \in Sessions : WsError(i)
    \/ \E i \in Sessions : Tick(i)
    \/ \E i \in Sessions : BlobNull(i)
    \/ \E i \in Sessions : ReaderLoad(i)
    \/ Reset
    \/ Disconnect
    \/ Unmount

Spec == Init /\ [][Next]_vars

\* One session on the happy path with a long run of inbound messages: the t-th
\* sample appended since the History was last empty carries timestamp t.
HistNext ==
    \/ Connect
    \/ \E i \in Sessions : GetUserMediaResolve(i)
    \/ \E i \in Sessions : PlayResolve(i)
    \/ \E i \in Sessions : WsOpen(i)
    \/ \E i \in Sessions : \E m \in HistMessages(napp + 1) :
          napp < HistMsgs /\ UNCHANGED nmsg /\ WsMessage(i, m)
    \/ Reset

SpecHistory == Init /\ [][HistNext]_vars

\* One session on the happy path whose data messages alternate between a face and
\* no face, with unparsable and control messages in between and the frame loop
\* running.
ScenarioNext ==
    \/ Connect
    \/ \E i \in Sessions : GetUserMediaResolve(i)
    \/ \E i \in Sessions : PlayResolve(i)
    \/ \E i \in Sessions : WsOpen(i)
    \/ \E i \in Sessions : \E m \in ScenarioMessages(nmsg + 1, napp + 1) :
          nmsg < ScenMsgs /\ nmsg' = nmsg + 1 /\ WsMessage(i, m)
    \/ \E i \in Sessions : \E m \in OtherMessages(napp + 1) :
          UNCHANGED nmsg /\ WsMessage(i, m)
    \/ \E i \in Sessions : Tick(i)
    \/ \E i \in Sessions : BlobNull(i)
    \/ \E i \in Sessions : ReaderLoad(i)

SpecScenario == Init /\ [][ScenarioNext]_vars

\* One session on the happy path receiving samples of several labels, with RESET.
AggNext ==
    \/ Connect
    \/ \E i \in Sessions : GetUserMediaResolve(i)
    \/ \E i \in Sessions : PlayResolve(i)
    \/ \E i \in Sessions : WsOpen(i)
    \/ \E i \in Sessions : \E m \in AggMessages(napp + 1) :
          nmsg < AggMsgs /\ nmsg' = nmsg + 1 /\ WsMessage(i, m)
    \/ Reset

SpecAggregate == Init /\ [][AggNext]_vars

\* -------------------------------------------------------------------- claims
Held(i) == stream[i] = "live"
Connected(i) == ws[i] \in {"CONNECTING", "OPEN"}

\* C1: stop() (disconnect, from the STOP button or the unmount cleanup) leaves the
\* session Idle, with every camera track stopped and no socket connecting or open.
C1_StopReleasesAll ==
    ev.op \in {"disconnect", "unmount"} =>
        /\ mounted => status = "idle"
        /\ \A i \in Sessions : ~Held(i) /\ ~Connected(i)

\* C2: a close event on an OPEN socket (no stop() before it) while the session is
\* Live or NoSignal leaves the session Idle.
C2_CloseGoesIdle ==
    (mounted /\ ev.op = "close" /\ ev.wsPre = "OPEN" /\ ev.pre \in {"live", "no_face"})
        => status = "idle"

\* C3: handling a close event that no stop() preceded releases the capture handle
\* of that session.
C3_CloseReleasesCapture ==
    (ev.op = "close" /\ ev.wsPre = "OPEN") => stream[ev.s] = "stopped"

\* C4: a channel error in Connecting, Live or NoSignal makes the session Error and,
\* in that step, cancels the capture loop and releases capture handle and channel.
C4_ErrorReleasesAll ==
    (mounted /\ ev.op = "error" /\ ev.pre \in {"connecting", "live", "no_face"})
        => /\ status = "error"
           /\ loop[ev.s] # "pending"
           /\ stream[ev.s] = "stopped"
           /\ ws[ev.s] = "CLOSED"

\* C5: when getUserMedia fails the session becomes Error and that call of connect()
\* never creates a socket.
C5_AcquireFailureNoChannel ==
    /\ \A i \in Sessions : pc[i] = "gumFailed" => ws[i] = "none"
    /\ (mounted /\ ev.op = "gumReject") => status = "error"

C5_Witness ==
    /\ ev.op = "gumReject" /\ ev.pre = "connecting"
    /\ status = "error" /\ pc[ev.s] = "gumFailed" /\ ws[ev.s] = "none"

\* C6: the History (the ref and the state copy) never holds more than N = 300 samples.
C6_HistoryBounded == Len(timelineRef) <= 300 /\ Len(timeline) <= 300

C6_Witness == napp > 300 /\ Len(timelineRef) = 300 /\ Len(timeline) = 300

\* C7: after m appends since the History was last empty it holds the last
\* min(m, 300) appended samples, oldest first (sample t carries timestamp t).
C7_HistoryIsLastN ==
    LET n == IF napp < 300 THEN napp ELSE 300 IN
    /\ Len(timelineRef) = n
    /\ \A j \in 1..n : timelineRef[j].t = napp - n + j
    /\ timeline = timelineRef

C7_Witness ==
    /\ napp = 302
    /\ Len(timelineRef) = 300
    /\ timelineRef[1].t = 3
    /\ timelineRef[300].t = 302

\* C8: whenever the session is Live or NoSignal, a channel connection is open.
C8_LiveImpliesOpen ==
    (mounted /\ status \in {"live", "no_face"}) => \E i \in Sessions : ws[i] = "OPEN"

\* C9: whenever a channel connection is open, the session is Live or NoSignal.
C9_OpenImpliesLive ==
    (mounted /\ \E i \in Sessions : ws[i] = "OPEN") => status \in {"live", "no_face"}

\* C10: a non-control message with a boolean face_detected leaves the session Live
\* if the flag is true and NoSignal if it is false, whatever the state before.
C10_MessageSetsLiveness ==
    (mounted /\ ev.op = "message" /\ ev.m.kind = "data" /\ ev.m.face \in {"true", "false"})
        => status = (IF ev.m.face = "true" THEN "live" ELSE "no_face")

C10_Witness ==
    /\ mounted /\ ev.op = "message" /\ ev.m.kind = "data"
    /\ ev.pre = "live" /\ ev.m.face = "false" /\ status = "no_face"


IsReset == ev.op \in {"reset", "resetThrows"}

\* What ws.onmessage may change: session state, face flag, rate metric, latest
\* sample and History.
session == <<status, faceDetected, fps, emotion, stressScore, timelineRef, timeline>>

\* C11 (as claimed): after the open event the session is still Connecting.
C11_OpenStaysConnecting ==
    (mounted /\ ev.op = "open" /\ ev.pre = "connecting") => status = "connecting"

\* C11 (amended): the open event alone makes the session Live, before any inbound
\* message has been handled.
C11_OpenGoesLive == (mounted /\ ev.op = "open") => status = "live"

C11_Witness ==
    mounted /\ ev.op = "open" /\ ev.pre = "connecting" /\ status = "live" /\ nmsg = 0

\* C12: a payload that is not JSON changes none of session state, face flag, rate
\* metric, latest sample and History, and the socket stays as it was for later messages.
C12_GarbageChangesNothing ==
    [][(ev'.op = "message" /\ ev'.m.kind = "garbage") => UNCHANGED <<session, ws>>]_vars

C12_Witness ==
    /\ mounted /\ ev.op = "message" /\ ev.m.kind = "garbage"
    /\ status = "live" /\ Len(timeline) = 1 /\ ws[ev.s] = "OPEN"

C14_ControlChangesNothing ==
    [][(ev'.op = "message" /\ ev'.m.kind \in {"keepalive", "pong"}) => UNCHANGED session]_vars

C14_Witness ==
    /\ mounted /\ ev.op = "message" /\ ev.m.kind = "keepalive" /\ ev.m.face = "true"
    /\ ev.m.emo # "none" /\ status = "no_face" /\ ~faceDetected

\* C15: RESET in Live or NoSignal empties the History and leaves the session state.
C15_ResetClearsHistory ==
    (mounted /\ IsReset /\ ev.pre \in {"live", "no_face"})
        => Len(timelineRef) = 0 /\ Len(timeline) = 0 /\ status = ev.pre

\* C16: RESET in Live or NoSignal sends one {type: "reset"} on an open socket.
C16_ResetSendsControl ==
    (mounted /\ IsReset /\ ev.pre \in {"live", "no_face"})
        => ev.tx = "reset" /\ ev.txOn # 0 /\ ws[ev.txOn] = "OPEN"

\* C17: RESET in Idle, Connecting or Error leaves the History alone and calls
\* send() on no socket that is not open.
C17_ResetOnlyWhenLive ==
    [][(ev'.op \in {"reset", "resetThrows"} /\ status \in {"idle", "connecting", "error"})
          => /\ UNCHANGED <<timelineRef, timeline>>
             /\ ev'.op # "resetThrows"]_vars

C19_FramesOnlyWhenOpen ==
    [][/\ ev'.tx = "frame" => (ev'.txOn # 0 /\ ws'[ev'.txOn] = "OPEN")
       /\ (ev'.op = "tick" /\ ~(wsRef # 0 /\ ws[wsRef] = "OPEN"))
             => (inflight' = inflight /\ ev'.tx = "none")]_vars

C19_Witness ==
    /\ ev.op = "tick" /\ loop[ev.s] = "ended" /\ ev.tx = "none"
    /\ ~(wsRef # 0 /\ ws[wsRef] = "OPEN")

\* C20: after stop() and before the next start(), no capture tick runs and no
\* frame is sent.
C20_NoTickAfterStop == stopReturned => (ev.op # "tick" /\ ev.tx # "frame")

\* C21: the camera stream and the socket of a session go together: no session has
\* its socket CLOSED with its tracks still live, or its tracks stopped with its
\* socket still OPEN.
C21_ReleasedTogether ==
    \A i \in Sessions :
        /\ ~(ws[i] = "CLOSED" /\ stream[i] = "live")
        /\ ~(ws[i] = "OPEN" /\ stream[i] = "stopped")

\* C22: when stop() has just run, every stream getUserMedia handed out has had its
\* tracks stopped: as many acquisitions as releases.
C22_AcquiresEqualReleases ==
    ev.op = "disconnect" =>
        Cardinality({i \in Sessions : stream[i] # "none"})
            = Cardinality({i \in Sessions : stream[i] = "stopped"})

\* C23: at most one socket is CONNECTING or OPEN at any time.
C23_OneChannel == Cardinality({i \in Sessions : Connected(i)}) <= 1

\* C24: stop(), a close event, an error event and a message that leaves the session
\* in NoSignal remove nothing from the History: timelineRef and timeline keep
\* every entry.
C24_HistoryKept ==
    [][(\/ ev'.op \in {"disconnect", "unmount", "close", "error"}
        \/ ev'.op = "message" /\ ev'.m.kind = "data" /\ ev'.m.face # "true")
          => UNCHANGED <<timelineRef, timeline>>]_vars

C24_Witness ==
    /\ mounted /\ ev.op = "disconnect" /\ ev.pre = "no_face" /\ status = "idle"
    /\ Len(timelineRef) = 1 /\ Len(timeline) = 1

\* C25: when connect() has just taken the session from idle to connecting, the
\* History is empty.
C25_StartClearsHistory ==
    (ev.op = "connect" /\ ev.pre = "idle" /\ status = "connecting")
        => Len(timelineRef) = 0 /\ Len(timeline) = 0

\* C26: from error, only STOP (or START) changes the status: no message, open,
\* close, error, tick, encode callback or promise settlement leaves error.
C26_ErrorIsSticky ==
    (mounted /\ ev.pre = "error" /\ ev.op \notin {"disconnect", "connect"})
        => status = "error"

\* C27: the status becomes error only when getUserMedia or play() rejects, when
\* new WebSocket throws, or on a socket's error event: never on a message, a
\* tick, an encode callback, RESET or a close event without an error.
C27_ErrorOnlyFromFailure ==
    (status = "error" /\ ev.pre # "error") =>
        \/ ev.op \in {"gumReject", "playReject", "error"}
        \/ ev.op \in {"gumResolve", "playResolve"} /\ pc[ev.s] = "wsFailed"

C27_Witness ==
    /\ mounted /\ ev.op = "close" /\ ev.wsPre = "OPEN" /\ ev.pre = "live"
    /\ status = "live"

\* C28: a sample is appended and handed to onEmotionUpdate only by a message with
\* face_detected true, which in the same step leaves the session live with the
\* face flag true.
C28_SampleOnlyWhenLive ==
    ev.notified =>
        /\ ev.op = "message" /\ ev.m.kind = "data" /\ ev.m.face = "true"
        /\ mounted => (status = "live" /\ faceDetected)
        /\ Len(timelineRef) > 0 /\ timelineRef[Len(timelineRef)] = Entry(ev.m)

C28_Witness ==
    /\ mounted /\ ev.notified /\ ev.pre = "no_face" /\ status = "live" /\ faceDetected
    /\ Len(timeline) = 1

\* C29: every data message appends one sample, the no-face ones too: after k
\* messages (true, false, true, ...) the History holds k samples.
C29_EveryMessageAppends ==
    /\ Len(timelineRef) = nmsg
    /\ nmsg = 3 => status = "live"

\* C29 (amended): only a message with face_detected true and an emotion appends a
\* sample.  The session is live as soon as the socket opens; after messages true,
\* false, true it is live, no_face, live, and the History holds 1, 1, 2 samples.
C29_OnlyFaceAppends ==
    /\ (nmsg = 0 /\ \E i \in Sessions : ws[i] = "OPEN") => status = "live"
    /\ nmsg > 0 => /\ status = (IF nmsg % 2 = 1 THEN "live" ELSE "no_face")
                   /\ faceDetected = (nmsg % 2 = 1)
                   /\ Len(timelineRef) = (nmsg + 1) \div 2
                   /\ timeline = timelineRef
                   /\ \A j \in 1..Len(timeline) : timeline[j].e # "none"

C29_Witness ==
    /\ nmsg = 3 /\ status = "live" /\ ev.op = "message" /\ ev.pre = "no_face"
    /\ Len(timeline) = 2 /\ timeline[1].e = "calm" /\ timeline[2].e = "stressed"

\* Occurrences of label e in tl, and the place of its first one.
Count(tl, e) == Cardinality({j \in 1..Len(tl) : tl[j].e = e})
First(tl, e) == CHOOSE j \in 1..Len(tl) : tl[j].e = e /\ \A k \in 1..(j - 1) : tl[k].e # e

\* C30: TOP STATE shows a label that no label of the History outnumbers and, among
\* the labels with as many occurrences, the one that occurs first; FRAMES is the
\* length of the History.
C30_TopStateIsMostFrequent ==
    Len(timeline) > 0 =>
        /\ \E e \in AggLabels :
              /\ TopState(timeline) = Upper4(e)
              /\ Count(timelineRef, e) > 0
              /\ \A o \in AggLabels \ {e} :
                    \/ Count(timelineRef, o) < Count(timelineRef, e)
                    \/ /\ Count(timelineRef, o) = Count(timelineRef, e)
                       /\ First(timelineRef, e) < First(timelineRef, o)
        /\ Frames(timeline) = Len(timelineRef)

C30_Witness ==
    /\ Len(timelineRef) = 4
    /\ [j \in 1..4 |-> timeline[j].e] = <<"calm", "joy", "joy", "calm">>
    /\ TopState(timeline) = "CALM" /\ Frames(timeline) = 4

\* Encodes (toBlob/FileReader callbacks) still to run, over all loops.
RECURSIVE Pending(_)
Pending(n) == IF n = 0 THEN 0 ELSE inflight[n] + Pending(n - 1)

\* C31: a tick starts at most one encode, and only with wsRef's socket OPEN; an
\* encode starts in no other step; a frame is sent only by the callback of one
\* encode, which that send uses up.  So the frames sent never outnumber the ticks
\* that ran with the socket open, and no encode sends twice.
C31_OneFramePerTick ==
    [][/\ \A i \in Sessions : inflight'[i] > inflight[i] =>
              /\ ev'.op = "tick" /\ ev'.s = i /\ inflight'[i] = inflight[i] + 1
              /\ wsRef # 0 /\ ws[wsRef] = "OPEN"
              /\ \A j \in Sessions \ {i} : inflight'[j] = inflight[j]
       /\ ev'.tx = "frame" =>
              /\ ev'.op = "readerLoad"
              /\ inflight'[ev'.s] = inflight[ev'.s] - 1
              /\ \A j \in Sessions \ {ev'.s} : inflight'[j] = inflight[j]]_vars

C31_Witness ==
    /\ ev.op = "readerLoad" /\ ev.tx = "frame" /\ ev.txOn = ev.s
    /\ Pending(MaxSessions) = 0 /\ loop[ev.s] = "pending"

\* C32: while the session is neither idle nor error, a tick leaves its loop with
\* a next frame requested, also when it found wsRef's socket not OPEN.
C32_SkippedTickKeepsLoop ==
    (mounted /\ ev.op = "tick" /\ status \notin {"idle", "error"})
        => loop[ev.s] = "pending"

\* C33: a toBlob callback without a blob sends nothing and changes neither the
\* session state nor the loop, whose next frame the tick had already requested
\* when it started the encode.
C33_FailedEncodeSkips ==
    [][/\ ev'.op = "blobNull" =>
              /\ ev'.tx = "none"
              /\ UNCHANGED <<session, loop, frameLoopRef>>
       /\ (ev'.op = "tick" /\ inflight'[ev'.s] > inflight[ev'.s])
              => loop'[ev'.s] = "pending" /\ frameLoopRef' = ev'.s]_vars

C33_Witness ==
    /\ mounted /\ ev.op = "blobNull" /\ ev.pre = "live" /\ status = "live"
    /\ loop[ev.s] = "pending" /\ frameLoopRef = ev.s /\ ws[ev.s] = "OPEN"

\* C34: when getUserMedia resolves for a connect() that STOP has overtaken (the
\* status is idle again), the status stays idle, the new stream's tracks are
\* stopped, and the call creates no socket and starts no loop.
C34_StopCancelsStart ==
    (mounted /\ ev.op = "gumResolve" /\ ev.pre = "idle") =>
        /\ status = "idle"
        /\ stream[ev.s] # "live"
        /\ pc[ev.s] \notin {"play", "done"}
        /\ ws[ev.s] = "none" /\ loop[ev.s] = "none"

\* C35: a close or error event of the socket of an earlier connect(), handled
\* after a later connect(), changes neither the status nor the frame loop of a
\* later session.
C35_OldEventsIgnored ==
    [][(ev'.op \in {"close", "error"} /\ ev'.s < nsess) =>
          /\ status' = status
          /\ \A j \in Sessions : j > ev'.s => loop'[j] = loop[j]]_vars

\* C36: when play() rejects after getUserMedia resolved, the status is error and
\* the tracks of the acquired stream are stopped.
C36_PlayFailureReleases ==
    (mounted /\ ev.op = "playReject") =>
        status = "error" /\ stream[ev.s] = "stopped"

\* C37: at most one frame loop has a frame requested, and frameLoopRef holds it.
C37_OneLoop ==
    /\ Cardinality({i \in Sessions : loop[i] = "pending"}) <= 1
    /\ \A i \in Sessions : loop[i] = "pending" => frameLoopRef = i

\* C38: a frame is sent only on the socket of the session whose tick captured it.
C38_FrameOnOwnChannel == ev.tx = "frame" => ev.txOn = ev.s

\* C39: a message with face_detected true and no emotion sets the status live and
\* the face flag, changes neither the latest sample nor the History, and does not
\* call onEmotionUpdate.
C39_NoLabelNoSample ==
    [][(ev'.op = "message" /\ ev'.m.kind = "data" /\ ev'.m.face = "true"
            /\ ev'.m.emo = "none")
          => /\ mounted => (status' = "live" /\ faceDetected')
             /\ UNCHANGED <<emotion, stressScore, timelineRef, timeline>>
             /\ ~ev'.notified]_vars

C39_Witness ==
    /\ mounted /\ ev.op = "message" /\ ev.m.kind = "data" /\ ev.m.face = "true"
    /\ ev.m.emo = "none" /\ ev.pre = "live" /\ status = "live" /\ faceDetected
    /\ Len(timeline) = 1 /\ emotion # "none"

====
